---- MODULE Spec2Model ----
(***************************************************************************)
(* Quflux: the platform connection service (OAuth connection             *)
(* orchestrator), src/.old/backend/services/platform_connection_service.py *)
(* with its OAuth handlers, src/.old/backend/services/oauth/.             *)
(*                                                                         *)
(* Every request is one asyncio task.  A task runs without interruption    *)
(* from one await that really suspends (an HTTP call to the provider, a    *)
(* database statement) to the next, so each action below is the code       *)
(* between two such awaits.  Spec is one server process with its           *)
(* module-level PlatformConnectionService object; SpecInstances adds a     *)
(* second server process behind the same address; SpecInitiate is the      *)
(* initiate endpoint alone, over every platform; SpecTimeouts adds         *)
(* providers that leave a call unanswered; SpecConnections is the list,    *)
(* get, refresh and disconnect endpoints on a stored table; SpecCipher is  *)
(* TokenEncryption (src/.old/backend/core/encryption.py) on its own;       *)
(* SpecAuth is AuthService (src/.old/backend/services/auth_service.py);    *)
(* SpecLifecycle is one user's connect and refresh requests on a stored    *)
(* table; SpecParse is parse_token_response and SpecSign the OAuth1        *)
(* signature base string and Authorization header, each on its own.        *)
(*                                                                         *)
(* Strings the properties do not look into are small integers: a state     *)
(* token (secrets.token_urlsafe(32)) is a number never handed out before,  *)
(* and so are the provider's request tokens and the database's row ids.    *)
(* The strings the OAuth1 signature works on are sequences of code points. *)
(*                                                                         *)
(* A request that ends leaves its outcome in response for the one state    *)
(* that follows its last step; its task is idle again at once.  The        *)
(* columns platform_username, created_at and updated_at of a connection    *)
(* row are left out: no step of the service reads them.                    *)
(***************************************************************************)
EXTENDS Integers, Sequences, FiniteSets, TLC

(* ---------------------------------------------------------------- bounds *)

\* initiate_oauth calls in one run (each draws one fresh state token)
MaxStates == 2
\* the clock runs from 0 to MaxTime
MaxTime == 2
\* the lifetime spec.md asks of a state record (the code has none)
StateTTL == 1
\* the tokens handed to a TokenEncryption object are 0..MaxToken
MaxToken == 15
\* the rows of the table the connection endpoints are run on
MaxRows == 2
\* the session tokens handed out in one run
MaxSessions == 2
\* the parameters handed to the OAuth1 signature at once
MaxParams == 2
\* a token response gives expires_in as one of 1..MaxExpiresIn, or leaves it out
MaxExpiresIn == 3

(* ------------------------------------------------------------- constants *)

\* Python's None, and every falsy string ("" is not told apart from None)
None == 0
\* a key that a provider's JSON response does not carry
Missing == -1

Tasks == {1, 2}
Users == {1, 2}
RedirectUris == {"https://app/cb"}
\* the platforms a client may ask for; "mastodon" has no handler
RequestedPlatforms == {"twitter", "linkedin", "mastodon"}
\* the user ids a provider's profile endpoint answers with
PlatformUserIds == {1}
\* the bodies a provider sends with a response that is not 200
\* (response.text)
ResponseTexts == {1, 2}
\* what a token endpoint answers with on 200
TokenResponses ==
    { [access_token |-> 1, refresh_token |-> 1, expires_in |-> 1],
      [access_token |-> 2, refresh_token |-> Missing, expires_in |-> Missing] }

\* the bodies a client may post to /oauth/callback (CompleteOAuthRequest):
\* an OAuth2 callback with any state token, one never handed out included; a
\* Twitter callback with any request token; a body with a state and half of
\* a Twitter callback
CallbackPayloads ==
    { [code |-> 1, state |-> s, oauth_token |-> None, oauth_verifier |-> None] :
        s \in 0..(MaxStates + 1) }
    \cup
    { [code |-> None, state |-> None, oauth_token |-> k, oauth_verifier |-> 1] :
        k \in 1..MaxStates }
    \cup
    { [code |-> 1, state |-> s, oauth_token |-> 1, oauth_verifier |-> None] :
        s \in {MaxStates, MaxStates + 1} }

\* the keys a TokenEncryption object may hold in its cipher_suite
CipherSuites == {1, 2}
\* the module-level object token_encryption, named by the key it holds
\* (the one derived from settings.ENCRYPTION_KEY)
token_encryption == 1

\* PlatformConnectionService.__init__: self.oauth_handlers
oauth_handlers == {"twitter", "linkedin", "facebook", "instagram"}

\* the messages of the exceptions the code raises
ErrUnsupportedPlatform == "Unsupported platform"
ErrInvalidOAuthToken == "Invalid or expired OAuth token"
ErrInvalidState == "Invalid or expired state parameter"
ErrRequestToken == "Failed to get request token"
ErrNoRequestToken == "Invalid state or expired request token"
ErrTokenMismatch == "OAuth token mismatch"
ErrAccessToken == "Failed to get access token"
ErrTokenExchange == "Token exchange failed"
ErrSecretRequired == "OAuth token secret required for Twitter OAuth 1.0a"
ErrProfile == "Failed to get user profile"
ErrMultipleResults == "MultipleResultsFound"
ErrRefreshInstance == "Could not refresh instance"
ErrConnectionNotFound == "Connection not found"
ErrNoRefreshToken == "No refresh token available"
ErrEmptyRefreshToken == "Failed to refresh connection: No refresh token available"
ErrNoRefreshMethod == "'TwitterOAuthHandler' object has no attribute 'refresh_access_token'"
ErrRefreshFailed == "Token refresh failed"
ErrReadTimeout == "httpx.ReadTimeout"
ErrTokenExpired == "Token expired"
ErrInvalidToken == "Invalid token"
ErrSessionInvalid == "Session expired or invalid"
Ok == "ok"

\* the exceptions that come from the service's own code and its database,
\* not from what the client sent nor from a provider
InternalErrors == {ErrMultipleResults, ErrRefreshInstance, ErrNoRefreshMethod}

\* ValueError is answered with 400 by the API layer, every other exception with 500
ValueErrors ==
    {ErrUnsupportedPlatform, ErrInvalidOAuthToken, ErrInvalidState, ErrNoRefreshToken}

(* ----------------------------------------------------------------- state *)

VARIABLES
    active_states,   \* self.active_states, a dict in insertion order
    connections,     \* the platform_connections table (committed rows)
    task,            \* per task: where it is and its local variables
    nextState,       \* the next state token secrets.token_urlsafe will return
    nextConnId,      \* the next row id uuid.uuid4 will return
    request_tokens,  \* provider side: the request tokens Twitter has issued
    passes,          \* history: per state token, the complete calls that got
                     \* past state verification with it (counted up to 2)
    response,        \* the outcome of the request that ended in the step just
                     \* taken (NoResponse when the step ended none)
    now,             \* the clock (datetime.utcnow)
    other_states,    \* self.active_states of the second server process
    cipher,          \* a TokenEncryption object at work on one token
    cache_store,     \* the Supabase table cache_store: the session records
    jwts,            \* the session tokens handed out (their payloads), each
                     \* with whether logout_user was called with it (history)
    parsing,         \* a call of parse_token_response on one token response
    signing          \* a TwitterOAuth1Handler at work on one set of parameters

vars == <<active_states, connections, task, nextState, nextConnId,
          request_tokens, passes, response, now, other_states, cipher,
          cache_store, jwts, parsing, signing>>

\* what no request to this server process touches
outside == <<other_states, cipher, cache_store, jwts, parsing, signing>>

NoTokens ==
    [access_token |-> None, refresh_token |-> None, expires_at |-> None,
     token_type |-> "none", oauth_token_secret |-> None]

\* a task that runs no request
IdleTask ==
    [pc |-> "idle", op |-> "none", state |-> None, seen |-> "none",
     oauth_token |-> None, oauth_verifier |-> None,
     user_id |-> None, platform |-> "none", redirect_uri |-> "none",
     handler_request_tokens |-> {},
     tokens |-> NoTokens, platform_user_id |-> None, existing |-> None,
     connection_id |-> None, refresh_token |-> None]

\* no session token
\* no call of parse_token_response
NoParsing ==
    [pc |-> "none", token_data |-> None, t |-> None, tokens |-> NoTokens]

\* a handler that has been given nothing to sign
NoSigning ==
    [pc |-> "none", method |-> <<>>, url |-> <<>>, params |-> <<>>,
     base_string |-> <<>>, header |-> <<>>]

NoJwt == [sub |-> None, session_id |-> None, exp |-> None]

\* no URL: nothing before the "?" and no query
NoUrl == [base |-> "", query |-> <<>>]

\* no request has ended
NoResponse ==
    [op |-> "none", result |-> "none", state |-> None, seen |-> "none",
     oauth_token |-> None, oauth_verifier |-> None, returned |-> None,
     connection_id |-> None, user_id |-> None, text |-> None,
     platform |-> "none", redirect_uri |-> "none", authorization_url |-> NoUrl,
     rows |-> {}, token |-> NoJwt]

\* a TokenEncryption object that has been given no token
NoCipher ==
    [pc |-> "none", cipher_suite |-> None, token |-> None,
     encrypted_token |-> None, tampered |-> FALSE, reader |-> None,
     decrypted_token |-> None]

(* --------------------------------------------------------------- helpers *)

\* the keys of an active_states dict
Keys(d) == {d[k].state : k \in 1..Len(d)}

\* a lookup that hands back the oldest record of the dict
Lookup_Oldest(d, state) == d[1]

\* d[state]: the record stored under a key that is in the dict
Lookup(d, state) == d[CHOOSE k \in 1..Len(d) : d[k].state = state]

\* d[state] = record: a new key goes last (a dict keeps insertion order), a
\* key the dict has keeps its place and loses its record
Store(d, record) ==
    IF record.state \in Keys(d)
    THEN [k \in 1..Len(d) |-> IF d[k].state = record.state THEN record ELSE d[k]]
    ELSE Append(d, record)

\* a token source that returns the same token on every call
token_urlsafe_Fixed(n) == 1

\* secrets.token_urlsafe(32): the token its n-th call returns, 32 bytes from
\* the system's random source, taken to differ from every token returned
\* before
token_urlsafe(n) == n

\* TwitterOAuthHandler.__init__: self._request_tokens = {}
TwitterOAuthHandler_request_tokens == {}

\* a complete_oauth that forgets "del self.active_states[state]"
ConsumeState_Keep(d, state) == d

\* a complete_oauth that drops the oldest record instead of the verified one
ConsumeState_Oldest(d, state) == Tail(d)

\* a complete_oauth that deletes the newest record instead of the verified one
ConsumeState_Newest(d, state) == SubSeq(d, 1, Len(d) - 1)

\* del d[state]: the other keys keep their order
ConsumeState(d, state) == SelectSeq(d, LAMBDA r : r.state # state)

\* complete_oauth: "state not in self.active_states" is what fails verification
StateVerified(d, state) == state \in Keys(d)

\* a complete_oauth that takes the scan on an oauth_token alone
IsOAuth1Callback_TokenOnly(oauth_token, oauth_verifier) == oauth_token # None

\* complete_oauth: "if oauth_token and oauth_verifier"
IsOAuth1Callback(oauth_token, oauth_verifier) ==
    oauth_token # None /\ oauth_verifier # None

\* complete_oauth: the loop over self.active_states.items() that stops at the
\* first record whose platform is "twitter"; None when there is none
FindTwitterState(d) ==
    LET found == {k \in 1..Len(d) : d[k].platform = "twitter"}
    IN  IF found = {} THEN None
        ELSE d[CHOOSE k \in found : \A j \in found : k <= j].state

\* Fernet(key).encrypt(data), base64 encoded: a text that is no token and
\* that holds the data for the one who has the key.  With K keys, the
\* ciphertext of data d under key k is written -(K * d + k).
Fernet_encrypt(key, data) == 0 - (data * Cardinality(CipherSuites) + key)

\* Fernet(key).decrypt of the base64 decoded text: the data when the text is a
\* ciphertext made under this key, and InvalidToken (or the decoder's error),
\* here the empty set, when it is anything else
Fernet_decrypt(key, text) ==
    LET K == Cardinality(CipherSuites)
    IN  IF text < 0 /\ ((0 - text - 1) % K) + 1 = key
        THEN {(0 - text - 1) \div K}
        ELSE {}

\* an encrypt_token that hands the token back as it came
TokenEncryption_encrypt_token_Plain(cipher_suite, token) == token

\* TokenEncryption.encrypt_token: "" for a falsy token, else the ciphertext
TokenEncryption_encrypt_token(cipher_suite, token) ==
    IF token = None THEN None ELSE Fernet_encrypt(cipher_suite, token)

\* TokenEncryption.decrypt_token: "" for a falsy text, else the decrypted
\* token, and "" again when decoding or decryption raises
TokenEncryption_decrypt_token(cipher_suite, encrypted_token) ==
    IF encrypted_token = None THEN None
    ELSE LET decrypted_token == Fernet_decrypt(cipher_suite, encrypted_token)
         IN  IF decrypted_token = {} THEN None
             ELSE CHOOSE token \in decrypted_token : TRUE

\* token_encryption.encrypt_token(token)
encrypt_token(token) == TokenEncryption_encrypt_token(token_encryption, token)

\* token_encryption.decrypt_token(encrypted_token)
decrypt_token(encrypted_token) ==
    TokenEncryption_decrypt_token(token_encryption, encrypted_token)

\* "encrypt_token(x) if x else None" in _create_new_connection and
\* _update_connection_tokens
EncryptOrNone(token) == IF token # None THEN encrypt_token(token) ELSE None

\* token_data.get(key)
Get(value) == IF value = Missing THEN None ELSE value

\* a parse_token_response that takes the access token for a token secret too
parse_token_response_WithSecret(token_data, t) ==
    [access_token |-> token_data.access_token,
     refresh_token |-> Get(token_data.refresh_token),
     expires_at |-> IF token_data.expires_in # Missing
                    THEN t + token_data.expires_in ELSE None,
     token_type |-> "Bearer",
     oauth_token_secret |-> token_data.access_token]

\* a parse_token_response that takes expires_in for the time of expiry
parse_token_response_NoClock(token_data, t) ==
    IF token_data.access_token = Missing THEN NoTokens
    ELSE [access_token |-> token_data.access_token,
          refresh_token |-> Get(token_data.refresh_token),
          expires_at |-> IF token_data.expires_in # Missing
                         THEN token_data.expires_in ELSE None,
          token_type |-> "Bearer",
          oauth_token_secret |-> None]

\* BaseOAuthHandler.parse_token_response, called at time t.  A response
\* without access_token raises KeyError at token_data['access_token']: no
\* OAuthTokens value is made (NoTokens).
parse_token_response(token_data, t) ==
    IF token_data.access_token = Missing THEN NoTokens
    ELSE [access_token |-> token_data.access_token,
          refresh_token |-> Get(token_data.refresh_token),
          expires_at |-> IF token_data.expires_in # Missing
                         THEN t + token_data.expires_in ELSE None,
          token_type |-> "Bearer",
          oauth_token_secret |-> None]

\* the dict TwitterOAuthHandler.exchange_code_for_tokens returns, as OAuthTokens
TwitterTokens(access_token_data) ==
    [access_token |-> access_token_data.oauth_token,
     refresh_token |-> None,
     expires_at |-> None,
     token_type |-> "oauth1",
     oauth_token_secret |-> access_token_data.oauth_token_secret]

\* the outcome of a request, with locals t, that ends with result (Ok or the
\* exception's message): what the API layer answers from.  seen is set when
\* the request ends in the first step of complete_oauth, and is then what
\* was known of the state token in the request.
Outcome(t, seen, result, returned) ==
    [op |-> t.op, result |-> result, state |-> t.state, seen |-> seen,
     oauth_token |-> t.oauth_token, oauth_verifier |-> t.oauth_verifier,
     returned |-> returned, connection_id |-> None, user_id |-> None,
     text |-> None, platform |-> "none", redirect_uri |-> "none",
     authorization_url |-> NoUrl, rows |-> {}, token |-> NoJwt]

\* the OAuthConfig that the handler class of an OAuth2 platform builds in its
\* __init__ (LinkedInOAuthHandler, MetaOAuthHandler as facebook or instagram);
\* a client id is named by the setting it is read from
OAuthConfig(platform, redirect_uri) ==
    [client_id |-> IF platform = "linkedin" THEN "settings.LINKEDIN_CLIENT_ID"
                   ELSE "settings.META_APP_ID",
     authorization_url |->
         IF platform = "linkedin"
         THEN "https://www.linkedin.com/oauth/v2/authorization"
         ELSE IF platform = "instagram"
         THEN "https://api.instagram.com/oauth/authorize"
         ELSE "https://www.facebook.com/v18.0/dialog/oauth",
     scope |-> IF platform = "linkedin" THEN "profile email w_member_social"
               ELSE IF platform = "instagram" THEN "instagram_basic"
               ELSE "pages_manage_posts,pages_read_engagement,pages_show_list",
     redirect_uri |-> redirect_uri]

\* a generate_authorization_url that leaves the state out of the query
generate_authorization_url_NoState(config, state) ==
    [base |-> config.authorization_url,
     query |-> [client_id |-> config.client_id,
                redirect_uri |-> config.redirect_uri,
                scope |-> config.scope,
                response_type |-> "code"]]

\* BaseOAuthHandler.generate_authorization_url: a URL is its part before the
\* "?" and the dict its query string encodes (get_authorization_params adds
\* nothing for linkedin, facebook and instagram)
generate_authorization_url(config, state) ==
    [base |-> config.authorization_url,
     query |-> [client_id |-> config.client_id,
                redirect_uri |-> config.redirect_uri,
                scope |-> config.scope,
                response_type |-> "code",
                state |-> state]]

\* TwitterOAuth1Handler.generate_authorization_url
TwitterOAuth1Handler_generate_authorization_url(oauth_token) ==
    [base |-> "https://api.x.com/oauth/authenticate",
     query |-> [oauth_token |-> oauth_token]]

\* initiate_oauth of the API layer, after the service has returned auth_url:
\* parse_qs(urlparse(auth_url).query).get('state', [''])[0] is the state of
\* the InitiateOAuthResponse
InitiateOAuthResponse(t, auth_url) ==
    [Outcome(t, "none", Ok,
             IF "state" \in DOMAIN auth_url.query THEN auth_url.query.state
             ELSE None)
        EXCEPT !.user_id = t.user_id, !.platform = t.platform,
               !.redirect_uri = t.redirect_uri, !.authorization_url = auth_url]

\* a task takes a request when it runs none
Free(p) == task[p].pc = "idle"

\* the state tokens handed out so far
Issued == 1..(nextState - 1)

(* ------------------------------------------------------------------ Init *)

Init ==
    /\ active_states = <<>>
    /\ connections = {}
    /\ task = [p \in Tasks |-> IdleTask]
    /\ nextState = 1
    /\ nextConnId = 1
    /\ request_tokens = {}
    /\ passes = [s \in 1..(MaxStates + 1) |-> 0]
    /\ response = NoResponse
    /\ now = 0
    /\ other_states = <<>>
    /\ cipher = NoCipher
    /\ cache_store = {}
    /\ jwts = {}
    /\ parsing = NoParsing
    /\ signing = NoSigning

(* -------------------------------------------------------------- initiate *)

\* PlatformConnectionService.initiate_oauth up to its first await: the state
\* record is stored, then the handler is looked up; an OAuth2 handler builds
\* the URL at once, the Twitter handler first asks for a request token
initiate_oauth(p, platform, user_id, redirect_uri) ==
    /\ Free(p)
    /\ nextState <= MaxStates
    /\ LET state == token_urlsafe(nextState)
           t == [IdleTask EXCEPT !.op = "initiate_oauth", !.state = state,
                                 !.user_id = user_id, !.platform = platform,
                                 !.redirect_uri = redirect_uri]
       IN  /\ nextState' = nextState + 1
           /\ active_states' =
                Store(active_states,
                      [state |-> state, user_id |-> user_id,
                       platform |-> platform, redirect_uri |-> redirect_uri,
                       created_at |-> now])
           /\ IF platform \notin oauth_handlers
              THEN /\ response' = Outcome(t, "none", ErrUnsupportedPlatform, None)
                   /\ UNCHANGED task
              ELSE IF platform = "twitter"
              THEN /\ task' = [task EXCEPT ![p] =
                                [t EXCEPT !.pc = "request_token",
                                          !.handler_request_tokens =
                                             TwitterOAuthHandler_request_tokens]]
                   /\ response' = NoResponse
              ELSE /\ response' =
                        InitiateOAuthResponse(
                            t, generate_authorization_url(
                                   OAuthConfig(platform, redirect_uri), state))
                   /\ UNCHANGED task
    /\ UNCHANGED <<connections, nextConnId, request_tokens, passes, now>>
    /\ UNCHANGED outside

\* TwitterOAuth1Handler.get_request_token answers and
\* TwitterOAuthHandler.initiate_oauth_flow goes on: the pair is kept in the
\* handler's _request_tokens, the URL carries the oauth_token, and the handler
\* object is dropped when initiate_oauth returns
RequestTokenResponse(p, status_ok, text) ==
    /\ task[p].pc = "request_token"
    /\ task' = [task EXCEPT ![p] = IdleTask]
    /\ IF ~status_ok
       THEN /\ response' = [Outcome(task[p], "none", ErrRequestToken, None)
                               EXCEPT !.text = text]
            /\ UNCHANGED request_tokens
       ELSE LET oauth_token == Cardinality(request_tokens) + 1
                pair == [state |-> task[p].state, oauth_token |-> oauth_token,
                         oauth_token_secret |-> oauth_token]
                t == [task[p] EXCEPT !.handler_request_tokens = @ \cup {pair},
                                     !.oauth_token = oauth_token]
            IN  /\ request_tokens' = request_tokens \cup {pair}
                /\ response' =
                     InitiateOAuthResponse(
                         t, TwitterOAuth1Handler_generate_authorization_url(
                                oauth_token))
    /\ UNCHANGED <<active_states, connections, nextState, nextConnId, passes, now>>
    /\ UNCHANGED outside

(* -------------------------------------------------------------- complete *)

\* what had happened to the state token of a callback when complete_oauth
\* was called with it (history): it is pending in this process, it is pending
\* in the other process, it was never handed out (None included), or it was
\* handed out and is pending no more
Seen(state) ==
    IF state \in Keys(active_states) THEN "pending"
    ELSE IF state \in Keys(other_states) THEN "pending elsewhere"
    ELSE IF state \notin Issued THEN "never issued"
    ELSE "consumed"

\* one more complete call got past verification with this state token
Passed(state) ==
    [passes EXCEPT ![state] = IF @ < 2 THEN @ + 1 ELSE 2]

\* PlatformConnectionService.complete_oauth up to its first await: resolve
\* the state (for an OAuth1 callback by the scan), verify it, read and delete
\* its record, build the handler and start the token exchange.  For twitter
\* the handler is a new TwitterOAuthHandler, and its exchange_code_for_tokens
\* looks the request token up in that handler's _request_tokens before it
\* sends anything.
complete_oauth(p, code, given_state, oauth_token, oauth_verifier) ==
    /\ Free(p)
    /\ LET oauth1 == IsOAuth1Callback(oauth_token, oauth_verifier)
           state_found == FindTwitterState(active_states)
           state == IF oauth1 THEN state_found ELSE given_state
           t == [IdleTask EXCEPT !.op = "complete_oauth", !.state = state,
                                 !.seen = Seen(given_state),
                                 !.oauth_token = oauth_token,
                                 !.oauth_verifier = oauth_verifier]
           Fail(u, result) == Outcome(u, u.seen, result, None)
       IN  IF oauth1 /\ state_found = None
           THEN /\ response' = Fail(t, ErrInvalidOAuthToken)
                /\ UNCHANGED <<active_states, passes, task>>
           ELSE IF ~StateVerified(active_states, state)
           THEN /\ response' = Fail(t, ErrInvalidState)
                /\ UNCHANGED <<active_states, passes, task>>
           ELSE LET state_data == Lookup(active_states, state)
                    handler_request_tokens == TwitterOAuthHandler_request_tokens
                    u == [t EXCEPT !.user_id = state_data.user_id,
                                   !.platform = state_data.platform,
                                   !.redirect_uri = state_data.redirect_uri,
                                   !.handler_request_tokens = handler_request_tokens]
                IN  /\ active_states' = ConsumeState(active_states, state)
                    /\ passes' = Passed(state)
                    /\ IF state_data.platform \notin oauth_handlers
                       THEN /\ response' = Fail(u, ErrUnsupportedPlatform)
                            /\ UNCHANGED task
                       ELSE IF state_data.platform # "twitter"
                       THEN /\ task' = [task EXCEPT ![p] = [u EXCEPT !.pc = "exchange"]]
                            /\ response' = NoResponse
                       ELSE IF \A r \in handler_request_tokens : r.state # state
                       THEN /\ response' = Fail(u, ErrNoRequestToken)
                            /\ UNCHANGED task
                       ELSE IF \E r \in handler_request_tokens :
                                   r.state = state /\ r.oauth_token # oauth_token
                       THEN /\ response' = Fail(u, ErrTokenMismatch)
                            /\ UNCHANGED task
                       ELSE /\ task' = [task EXCEPT ![p] = [u EXCEPT !.pc = "exchange"]]
                            /\ response' = NoResponse
    /\ UNCHANGED <<connections, nextState, nextConnId, request_tokens, now>>
    /\ UNCHANGED outside

\* the status the API layer answers with (api/v1/platform_connections.py):
\* 200 for a result, 400 for a ValueError, 404 where get_connection_by_id
\* found no row, 500 for every other exception
status_code(result) ==
    IF result = Ok THEN 200
    ELSE IF result \in ValueErrors THEN 400
    ELSE IF result = ErrConnectionNotFound THEN 404
    ELSE 500

\* a request of task p ends before its last step
Abort(p, result) ==
    /\ task' = [task EXCEPT ![p] = IdleTask]
    /\ response' = Outcome(task[p], "none", result, None)

\* a request of task p ends on a provider response that is not 200: the
\* exception raised is Exception(f"<result>: {response.text}"), and the API
\* layer puts str(e) in the detail of its answer
ProviderError(p, result, text) ==
    /\ task' = [task EXCEPT ![p] = IdleTask]
    /\ response' = [Outcome(task[p], "none", result, None) EXCEPT !.text = text]

\* the token endpoint answers.  OAuth2: BaseOAuthHandler.exchange_code_for_tokens
\* from the response on; twitter: TwitterOAuth1Handler.get_access_token from
\* the response on, the rest of TwitterOAuthHandler.exchange_code_for_tokens
\* and the check that opens TwitterOAuthHandler.get_user_profile.  Then the
\* profile request is sent.
ExchangeResponse(p, status_ok, token_data, text) ==
    /\ task[p].pc = "exchange"
    /\ IF task[p].platform = "twitter"
       THEN IF ~status_ok THEN ProviderError(p, ErrAccessToken, text)
            ELSE LET tokens ==
                        TwitterTokens(
                            [oauth_token |-> token_data.access_token,
                             oauth_token_secret |-> token_data.access_token])
                 IN  IF tokens.oauth_token_secret = None
                     THEN Abort(p, ErrSecretRequired)
                     ELSE /\ task' =
                               [task EXCEPT ![p] =
                                  [@ EXCEPT !.pc = "profile",
                                            !.handler_request_tokens =
                                               {r \in @ : r.state # task[p].state},
                                            !.tokens = tokens]]
                          /\ response' = NoResponse
       ELSE IF ~status_ok THEN ProviderError(p, ErrTokenExchange, text)
            ELSE /\ task' =
                      [task EXCEPT ![p] =
                         [@ EXCEPT !.pc = "profile",
                                   !.tokens = parse_token_response(token_data, now)]]
                 /\ response' = NoResponse
    /\ UNCHANGED <<active_states, connections, nextState, nextConnId,
                   request_tokens, passes, now>>
    /\ UNCHANGED outside

\* the rows of one (user_id, platform, platform_user_id) triple
RowsOf(rows, user_id, platform, platform_user_id) ==
    {c \in rows : /\ c.user_id = user_id
                  /\ c.platform = platform
                  /\ c.platform_user_id = platform_user_id}

\* a complete_oauth that adds the row before it has the profile, and leaves
\* it there when the profile request fails
ProfileResponse_KeepsPartialRow(p, status_ok, platform_user_id, text) ==
    /\ task[p].pc = "profile"
    /\ IF ~status_ok
       THEN /\ ProviderError(p, ErrProfile, text)
            /\ connections' =
                 connections \cup
                    {[id |-> nextConnId, user_id |-> task[p].user_id,
                      platform |-> task[p].platform, platform_user_id |-> None,
                      access_token |-> encrypt_token(task[p].tokens.access_token),
                      refresh_token |-> EncryptOrNone(task[p].tokens.refresh_token),
                      oauth_token_secret |->
                          EncryptOrNone(task[p].tokens.oauth_token_secret),
                      expires_at |-> task[p].tokens.expires_at,
                      is_active |-> TRUE]}
            /\ nextConnId' = nextConnId + 1
       ELSE /\ task' = [task EXCEPT ![p] =
                          [@ EXCEPT !.pc = "select",
                                    !.handler_request_tokens = {},
                                    !.platform_user_id = platform_user_id]]
            /\ response' = NoResponse
            /\ UNCHANGED <<connections, nextConnId>>
    /\ UNCHANGED <<active_states, nextState, request_tokens, passes, now>>
    /\ UNCHANGED outside

\* the profile endpoint answers (get_user_profile from the response on) and
\* the handler is closed; _get_existing_connection sends its SELECT
ProfileResponse(p, status_ok, platform_user_id, text) ==
    /\ task[p].pc = "profile"
    /\ IF ~status_ok THEN ProviderError(p, ErrProfile, text)
       ELSE /\ task' = [task EXCEPT ![p] =
                          [@ EXCEPT !.pc = "select",
                                    !.handler_request_tokens = {},
                                    !.platform_user_id = platform_user_id]]
            /\ response' = NoResponse
    /\ UNCHANGED <<active_states, connections, nextState, nextConnId,
                   request_tokens, passes, now>>
    /\ UNCHANGED outside

\* PlatformConnectionService._get_existing_connection: the SELECT runs and
\* scalar_one_or_none gives the row, None, or raises on several rows; then
\* the UPDATE or the INSERT is sent
get_existing_connection(p) ==
    /\ task[p].pc = "select"
    /\ LET found == RowsOf(connections, task[p].user_id, task[p].platform,
                           task[p].platform_user_id)
       IN  IF Cardinality(found) > 1 THEN Abort(p, ErrMultipleResults)
           ELSE /\ task' =
                     [task EXCEPT ![p] =
                        [@ EXCEPT !.pc = "upsert",
                                  !.existing = IF found = {} THEN None
                                               ELSE (CHOOSE c \in found : TRUE).id]]
                /\ response' = NoResponse
    /\ UNCHANGED <<active_states, connections, nextState, nextConnId,
                   request_tokens, passes, now>>
    /\ UNCHANGED outside

\* the row PlatformConnectionService._create_new_connection adds
NewConnection(id, user_id, platform, platform_user_id, tokens) ==
    [id |-> id, user_id |-> user_id, platform |-> platform,
     platform_user_id |-> platform_user_id,
     access_token |-> encrypt_token(tokens.access_token),
     refresh_token |-> EncryptOrNone(tokens.refresh_token),
     oauth_token_secret |-> EncryptOrNone(tokens.oauth_token_secret),
     expires_at |-> tokens.expires_at,
     is_active |-> TRUE]

\* the UPDATE of PlatformConnectionService._update_connection_tokens on one row
UpdatedConnection(c, tokens) ==
    [c EXCEPT !.access_token = encrypt_token(tokens.access_token),
              !.refresh_token = EncryptOrNone(tokens.refresh_token),
              !.oauth_token_secret = EncryptOrNone(tokens.oauth_token_secret),
              !.expires_at = tokens.expires_at,
              !.is_active = TRUE]

\* an UPDATE that has lost its WHERE
update_connection_tokens_AllRows(rows, id, tokens) ==
    {UpdatedConnection(c, tokens) : c \in rows}

\* UPDATE ... WHERE id = :id on the table
update_connection_tokens(rows, id, tokens) ==
    {IF c.id = id THEN UpdatedConnection(c, tokens) ELSE c : c \in rows}

\* the end of complete_oauth: _update_connection_tokens on the row the SELECT
\* found (UPDATE, commit, refresh), or _create_new_connection (INSERT, commit,
\* refresh); each is one committed transaction
upsert_connection(p) ==
    /\ task[p].pc = "upsert"
    /\ task' = [task EXCEPT ![p] = IdleTask]
    /\ IF task[p].existing # None
       THEN /\ connections' =
                 update_connection_tokens(connections, task[p].existing,
                                          task[p].tokens)
            /\ response' =
                 IF \E c \in connections : c.id = task[p].existing
                 THEN Outcome(task[p], "none", Ok, task[p].existing)
                 ELSE Outcome(task[p], "none", ErrRefreshInstance, None)
            /\ UNCHANGED nextConnId
       ELSE /\ connections' =
                 connections \cup
                    {NewConnection(nextConnId, task[p].user_id, task[p].platform,
                                   task[p].platform_user_id, task[p].tokens)}
            /\ nextConnId' = nextConnId + 1
            /\ response' = Outcome(task[p], "none", Ok, nextConnId)
    /\ UNCHANGED <<active_states, nextState, request_tokens, passes, now>>
    /\ UNCHANGED outside

(* ------------------------------------------------------------ environment *)

\* time passes
Tick ==
    /\ now < MaxTime
    /\ now' = now + 1
    /\ response' = NoResponse
    /\ UNCHANGED <<active_states, connections, task, nextState, nextConnId,
                   request_tokens, passes>>
    /\ UNCHANGED outside

Next ==
    \/ \E p \in Tasks, platform \in RequestedPlatforms,
          user_id \in Users, redirect_uri \in RedirectUris :
            initiate_oauth(p, platform, user_id, redirect_uri)
    \/ \E p \in Tasks, status_ok \in BOOLEAN, text \in ResponseTexts :
            RequestTokenResponse(p, status_ok, text)
    \/ \E p \in Tasks, payload \in CallbackPayloads :
            complete_oauth(p, payload.code, payload.state, payload.oauth_token,
                           payload.oauth_verifier)
    \/ \E p \in Tasks, status_ok \in BOOLEAN, token_data \in TokenResponses,
          text \in ResponseTexts :
            ExchangeResponse(p, status_ok, token_data, text)
    \/ \E p \in Tasks, status_ok \in BOOLEAN, platform_user_id \in PlatformUserIds,
          text \in ResponseTexts :
            ProfileResponse(p, status_ok, platform_user_id, text)
    \/ \E p \in Tasks : get_existing_connection(p)
    \/ \E p \in Tasks : upsert_connection(p)

\* the initiate endpoint alone, asked for every platform that has a handler
\* and for one that has none
NextInitiate ==
    \/ \E p \in Tasks, platform \in oauth_handlers \cup {"mastodon"},
          user_id \in Users, redirect_uri \in RedirectUris :
            initiate_oauth(p, platform, user_id, redirect_uri)
    \/ \E p \in Tasks, status_ok \in BOOLEAN, text \in ResponseTexts :
            RequestTokenResponse(p, status_ok, text)

SpecInitiate == Init /\ [][NextInitiate]_vars

\* a provider does not answer the call a task waits on.  The handlers build
\* their clients as httpx.AsyncClient(), whose default timeout is 5 seconds:
\* the await raises httpx.ReadTimeout, no handler and no service method
\* catches it, and the request ends in the API layer's "except Exception"
ProviderTimeout(p) ==
    /\ task[p].pc \in {"request_token", "exchange", "profile"}
    /\ Abort(p, ErrReadTimeout)
    /\ UNCHANGED <<active_states, connections, nextState, nextConnId,
                   request_tokens, passes, now>>
    /\ UNCHANGED outside

NextTimeouts ==
    \/ Next
    \/ \E p \in Tasks : ProviderTimeout(p)

\* the service with providers that may leave a call unanswered
SpecTimeouts == Init /\ [][NextTimeouts]_vars

\* the service with the clock standing still: the code stores the times it
\* reads (created_at, expires_at) and never reads them back
Spec == Init /\ [][Next]_vars

NextTimed ==
    \/ Next
    \/ Tick

\* the service with time passing between the steps
SpecTimed == Init /\ [][NextTimed]_vars

(* ------------------------------------------------------------- instances *)

\* Each server process imports the module and so builds its own
\* PlatformConnectionService with its own active_states.  A request touches
\* self.active_states only in its first step, in the process that takes it:
\* active_states is the dict of the process that takes the requests arriving
\* now, other_states the dict of the other process.  Here the balancer in
\* front of the two turns to the other process.
Reroute ==
    /\ active_states # other_states
    /\ active_states' = other_states
    /\ other_states' = active_states
    /\ response' = NoResponse
    /\ UNCHANGED <<connections, task, nextState, nextConnId, request_tokens,
                   passes, now, cipher, cache_store, jwts, parsing, signing>>

NextInstances ==
    \/ Next
    \/ Reroute

\* the service run as two server processes over one database
SpecInstances == Init /\ [][NextInstances]_vars


(* ----------------------------------------------------------- connections *)

\* the requests of the connection endpoints name a row id (MaxRows + 1 is the
\* id of no row) and come from a signed-in user
ConnectionIds == 1..(MaxRows + 1)

\* a row as _create_new_connection writes it: for twitter from the tokens of
\* an access token exchange, for an OAuth2 platform from a token response
StoredConnection(id, user_id, platform, token_data) ==
    NewConnection(id, user_id, platform, 1,
                  IF platform = "twitter"
                  THEN TwitterTokens([oauth_token |-> token_data.access_token,
                                      oauth_token_secret |-> token_data.access_token])
                  ELSE parse_token_response(token_data, 0))

\* a row that was written when token_encryption held the key cipher_suite
\* (settings.ENCRYPTION_KEY has been changed since, or __init__ fell back
\* to Fernet.generate_key())
WrittenUnder(c, cipher_suite) ==
    LET Kept(encrypted_token) ==
            TokenEncryption_encrypt_token(cipher_suite,
                                          decrypt_token(encrypted_token))
    IN  [c EXCEPT !.access_token = Kept(@),
                  !.refresh_token = Kept(@),
                  !.oauth_token_secret = Kept(@)]

\* the tables the connection endpoints are run on: row 1 is user 1's, of
\* either flow, written under either key; the rows after it are user 2's
\* linkedin connections, with a refresh token
StoredTables ==
    { {WrittenUnder(StoredConnection(1, 1, platform, token_data), cipher_suite)}
        \cup {StoredConnection(id, 2, "linkedin",
                               [access_token |-> 1, refresh_token |-> 1,
                                expires_in |-> 1]) : id \in 2..MaxRows} :
        platform \in {"twitter", "linkedin"}, token_data \in TokenResponses,
        cipher_suite \in CipherSuites }

InitConnections ==
    /\ active_states = <<>>
    /\ connections \in StoredTables
    /\ task = [p \in Tasks |-> IdleTask]
    /\ nextState = 1
    /\ nextConnId = MaxRows + 1
    /\ request_tokens = {}
    /\ passes = [s \in 1..(MaxStates + 1) |-> 0]
    /\ response = NoResponse
    /\ now = 0
    /\ other_states = <<>>
    /\ cipher = NoCipher
    /\ cache_store = {}
    /\ jwts = {}
    /\ parsing = NoParsing
    /\ signing = NoSigning

\* what the API layer answers a request of the connection endpoints with
ConnectionOutcome(op, connection_id, user_id, result) ==
    [NoResponse EXCEPT !.op = op, !.result = result,
                       !.connection_id = connection_id, !.user_id = user_id]

\* a get_connection_by_id that leaves the user out of its WHERE
get_connection_by_id_AnyUser(rows, connection_id, user_id) ==
    {c \in rows : c.id = connection_id /\ c.is_active}

\* PlatformConnectionService.get_connection_by_id: the SELECT (id is the
\* primary key: one row or none)
get_connection_by_id(rows, connection_id, user_id) ==
    {c \in rows : c.id = connection_id /\ c.user_id = user_id /\ c.is_active}

\* a refresh_connection_token without its "if not connection.refresh_token"
NoRefreshToken_Unchecked(connection) == FALSE

\* refresh_connection_token: "if not connection.refresh_token"
NoRefreshToken(connection) == connection.refresh_token = None

\* a disconnect_platform that leaves the user out of its WHERE
DeleteWhere_AnyUser(rows, connection_id, user_id) ==
    {c \in rows : c.id = connection_id}

\* disconnect_platform: the rows its DELETE matches
DeleteWhere(rows, connection_id, user_id) ==
    {c \in rows : c.id = connection_id /\ c.user_id = user_id}

\* get_database: the session of a request is closed; what the request did
\* in its transaction and did not commit is rolled back
session_close(committed, in_transaction) == committed

\* PlatformConnectionService.get_user_connections: "return []", whatever the
\* table holds
PlatformConnectionService_get_user_connections(rows, user_id) == {}

\* GET /: get_user_connections of the API layer answers with the list the
\* service returns
get_user_connections(p, user_id) ==
    /\ Free(p)
    /\ response' =
         [ConnectionOutcome("get_user_connections", None, user_id, Ok)
            EXCEPT !.rows = PlatformConnectionService_get_user_connections(
                                connections, user_id)]
    /\ UNCHANGED <<active_states, connections, task, nextState, nextConnId,
                   request_tokens, passes, now>>
    /\ UNCHANGED outside

\* GET /{connection_id}: get_connection of the API layer
get_connection(p, connection_id, user_id) ==
    /\ Free(p)
    /\ response' =
         ConnectionOutcome("get_connection", connection_id, user_id,
                           IF get_connection_by_id(connections, connection_id,
                                                   user_id) = {}
                           THEN ErrConnectionNotFound ELSE Ok)
    /\ UNCHANGED <<active_states, connections, task, nextState, nextConnId,
                   request_tokens, passes, now>>
    /\ UNCHANGED outside

\* POST /{connection_id}/refresh up to the provider call: refresh_connection
\* of the API layer looks the connection up for the user, then
\* refresh_connection_token selects it again by id (the session hands back
\* the object it has loaded), checks and decrypts its refresh token, builds
\* the handler and sends the refresh request
refresh_connection(p, connection_id, user_id) ==
    /\ Free(p)
    /\ LET found == get_connection_by_id(connections, connection_id, user_id)
           End(result) ==
               /\ response' = ConnectionOutcome("refresh_connection",
                                                connection_id, user_id, result)
               /\ UNCHANGED task
       IN  IF found = {} THEN End(ErrConnectionNotFound)
           ELSE LET connection == CHOOSE c \in found : TRUE
                    refresh_token == decrypt_token(connection.refresh_token)
                IN  IF NoRefreshToken(connection) THEN End(ErrNoRefreshToken)
                    ELSE IF connection.platform \notin oauth_handlers
                    THEN End(ErrUnsupportedPlatform)
                    ELSE IF connection.platform = "twitter"
                    THEN End(ErrNoRefreshMethod)
                    ELSE IF refresh_token = None THEN End(ErrEmptyRefreshToken)
                    ELSE /\ task' =
                              [task EXCEPT ![p] =
                                 [IdleTask EXCEPT
                                    !.pc = "refresh",
                                    !.op = "refresh_connection",
                                    !.connection_id = connection_id,
                                    !.user_id = user_id,
                                    !.platform = connection.platform,
                                    !.refresh_token = refresh_token]]
                         /\ response' = NoResponse
    /\ UNCHANGED <<active_states, connections, nextState, nextConnId,
                   request_tokens, passes, now>>
    /\ UNCHANGED outside

\* the token endpoint answers the refresh request
\* (BaseOAuthHandler.refresh_access_token from the response on);
\* _update_connection_tokens sends its UPDATE
RefreshResponse(p, status_ok, token_data, text) ==
    /\ task[p].pc = "refresh"
    /\ IF ~status_ok
       THEN /\ task' = [task EXCEPT ![p] = IdleTask]
            /\ response' =
                 [ConnectionOutcome("refresh_connection", task[p].connection_id,
                                    task[p].user_id, ErrRefreshFailed)
                    EXCEPT !.text = text]
       ELSE /\ task' = [task EXCEPT ![p] =
                          [@ EXCEPT !.pc = "update",
                                    !.tokens = parse_token_response(token_data, now)]]
            /\ response' = NoResponse
    /\ UNCHANGED <<active_states, connections, nextState, nextConnId,
                   request_tokens, passes, now>>
    /\ UNCHANGED outside

\* the end of refresh_connection_token: _update_connection_tokens (UPDATE by
\* id, commit, refresh)
update_connection(p) ==
    /\ task[p].pc = "update"
    /\ task' = [task EXCEPT ![p] = IdleTask]
    /\ connections' =
         update_connection_tokens(connections, task[p].connection_id,
                                  task[p].tokens)
    /\ response' =
         ConnectionOutcome("refresh_connection", task[p].connection_id,
                           task[p].user_id,
                           IF \E c \in connections : c.id = task[p].connection_id
                           THEN Ok ELSE ErrRefreshInstance)
    /\ UNCHANGED <<active_states, nextState, nextConnId, request_tokens,
                   passes, now>>
    /\ UNCHANGED outside

\* DELETE /{connection_id}: disconnect_platform of the API layer calls
\* disconnect_platform of the service, which runs its DELETE in the session's
\* transaction and returns whether a row matched; neither commits, and the
\* session is closed when the request ends
disconnect_platform(p, connection_id, user_id) ==
    /\ Free(p)
    /\ LET deleted == DeleteWhere(connections, connection_id, user_id)
           rowcount == Cardinality(deleted)
       IN  /\ connections' = session_close(connections, connections \ deleted)
           /\ response' =
                ConnectionOutcome("disconnect_platform", connection_id, user_id,
                                  IF rowcount > 0 THEN Ok
                                  ELSE ErrConnectionNotFound)
    /\ UNCHANGED <<active_states, task, nextState, nextConnId, request_tokens,
                   passes, now>>
    /\ UNCHANGED outside

NextConnections ==
    \/ \E p \in Tasks, user_id \in Users : get_user_connections(p, user_id)
    \/ \E p \in Tasks, connection_id \in ConnectionIds, user_id \in Users :
            get_connection(p, connection_id, user_id)
    \/ \E p \in Tasks, connection_id \in ConnectionIds, user_id \in Users :
            refresh_connection(p, connection_id, user_id)
    \/ \E p \in Tasks, status_ok \in BOOLEAN, token_data \in TokenResponses,
          text \in ResponseTexts :
            RefreshResponse(p, status_ok, token_data, text)
    \/ \E p \in Tasks : update_connection(p)
    \/ \E p \in Tasks, connection_id \in ConnectionIds, user_id \in Users :
            disconnect_platform(p, connection_id, user_id)

\* the connection endpoints (get, refresh, disconnect) on a stored table
SpecConnections == InitConnections /\ [][NextConnections]_vars


\* one client, user 1, on a stored table: it connects (twitter, linkedin),
\* authorizes again a platform it has a connection of, and refreshes
NextLifecycle ==
    \/ \E platform \in {"twitter", "linkedin"}, redirect_uri \in RedirectUris :
            initiate_oauth(1, platform, 1, redirect_uri)
    \/ \E status_ok \in BOOLEAN, text \in ResponseTexts :
            RequestTokenResponse(1, status_ok, text)
    \/ \E payload \in CallbackPayloads :
            complete_oauth(1, payload.code, payload.state, payload.oauth_token,
                           payload.oauth_verifier)
    \/ \E status_ok \in BOOLEAN, token_data \in TokenResponses,
          text \in ResponseTexts :
            ExchangeResponse(1, status_ok, token_data, text)
    \/ \E status_ok \in BOOLEAN, platform_user_id \in PlatformUserIds,
          text \in ResponseTexts :
            ProfileResponse(1, status_ok, platform_user_id, text)
    \/ get_existing_connection(1)
    \/ upsert_connection(1)
    \/ \E connection_id \in ConnectionIds, user_id \in Users :
            refresh_connection(1, connection_id, user_id)
    \/ \E status_ok \in BOOLEAN, token_data \in TokenResponses,
          text \in ResponseTexts :
            RefreshResponse(1, status_ok, token_data, text)
    \/ update_connection(1)

\* the life of a connection: complete, re-authorization and refresh on a
\* stored table, one request at a time
SpecLifecycle == InitConnections /\ [][NextLifecycle]_vars


(* ------------------------------------------------------------ encryption *)

\* a TokenEncryption object built with any of the keys is handed any token
InitCipher ==
    /\ active_states = <<>>
    /\ connections = {}
    /\ task = [p \in Tasks |-> IdleTask]
    /\ nextState = 1
    /\ nextConnId = 1
    /\ request_tokens = {}
    /\ passes = [s \in 1..(MaxStates + 1) |-> 0]
    /\ response = NoResponse
    /\ now = 0
    /\ cache_store = {}
    /\ jwts = {}
    /\ parsing = NoParsing
    /\ signing = NoSigning
    /\ other_states = <<>>
    /\ cipher \in {[NoCipher EXCEPT !.pc = "token", !.cipher_suite = cipher_suite,
                                    !.token = token] :
                      cipher_suite \in CipherSuites, token \in 0..MaxToken}

\* encrypted_token = TokenEncryption(key).encrypt_token(token)
CallEncrypt ==
    /\ cipher.pc = "token"
    /\ cipher' = [cipher EXCEPT
                    !.pc = "encrypted",
                    !.encrypted_token =
                        TokenEncryption_encrypt_token(cipher.cipher_suite,
                                                      cipher.token)]
    /\ UNCHANGED <<active_states, connections, task, nextState, nextConnId,
                   request_tokens, passes, response, now, other_states,
                   cache_store, jwts, parsing, signing>>

\* the encrypted token is altered where it is kept: the text is no longer one
\* that Fernet made under any key (the altered ciphertext -c is written c)
Tamper ==
    /\ cipher.pc = "encrypted"
    /\ ~cipher.tampered
    /\ cipher.encrypted_token # None
    /\ cipher' = [cipher EXCEPT !.tampered = TRUE,
                                 !.encrypted_token = 0 - cipher.encrypted_token]
    /\ UNCHANGED <<active_states, connections, task, nextState, nextConnId,
                   request_tokens, passes, response, now, other_states,
                   cache_store, jwts, parsing, signing>>

\* decrypted_token = TokenEncryption(key).decrypt_token(encrypted_token), by
\* an object that holds the same key or another one
CallDecrypt(cipher_suite) ==
    /\ cipher.pc = "encrypted"
    /\ cipher' = [cipher EXCEPT
                    !.pc = "decrypted",
                    !.reader = cipher_suite,
                    !.decrypted_token =
                        TokenEncryption_decrypt_token(cipher_suite,
                                                      cipher.encrypted_token)]
    /\ UNCHANGED <<active_states, connections, task, nextState, nextConnId,
                   request_tokens, passes, response, now, other_states,
                   cache_store, jwts, parsing, signing>>

NextCipher ==
    \/ CallEncrypt
    \/ Tamper
    \/ \E cipher_suite \in CipherSuites : CallDecrypt(cipher_suite)

\* TokenEncryption on its own: one token encrypted, kept, then decrypted
SpecCipher == InitCipher /\ [][NextCipher]_vars


(* ------------------------------------------------------- token responses *)

\* the JSON bodies a token endpoint may answer with on 200: access_token,
\* refresh_token and expires_in each present or left out
ParsedResponses ==
    [access_token : {Missing, 1, 2}, refresh_token : {Missing, 1},
     expires_in : {Missing} \cup 1..MaxExpiresIn]

\* a handler has received a token response at some time
InitParse ==
    /\ active_states = <<>>
    /\ connections = {}
    /\ task = [p \in Tasks |-> IdleTask]
    /\ nextState = 1
    /\ nextConnId = 1
    /\ request_tokens = {}
    /\ passes = [s \in 1..(MaxStates + 1) |-> 0]
    /\ response = NoResponse
    /\ now = 0
    /\ other_states = <<>>
    /\ cipher = NoCipher
    /\ cache_store = {}
    /\ jwts = {}
    /\ signing = NoSigning
    /\ parsing \in {[NoParsing EXCEPT !.pc = "response", !.token_data = token_data,
                                      !.t = t] :
                       token_data \in ParsedResponses, t \in 0..MaxTime}

\* tokens = handler.parse_token_response(token_data), with utcnow() = t
CallParse ==
    /\ parsing.pc = "response"
    /\ parsing' = [parsing EXCEPT
                     !.pc = "parsed",
                     !.tokens = parse_token_response(parsing.token_data, parsing.t)]
    /\ UNCHANGED <<active_states, connections, task, nextState, nextConnId,
                   request_tokens, passes, response, now, other_states, cipher,
                   cache_store, jwts, signing>>

NextParse == CallParse

\* parse_token_response on its own
SpecParse == InitParse /\ [][NextParse]_vars


(* ------------------------------------------------------ OAuth1 signature *)

\* Strings are sequences of code points: "a" is <<97>>, "/" <<47>>, ":" <<58>>,
\* "|" <<124>>, "%" <<37>>, "&" <<38>>, "=" <<61>>.

\* the characters urllib.parse.quote never encodes: letters, digits, _ . - ~
AlwaysSafe == (48..57) \cup (65..90) \cup (97..122) \cup {45, 46, 95, 126}

\* the safe characters of quote(string) when no safe argument is given: "/"
DefaultSafe == {47}

\* one hexadecimal digit, upper case, as a code point
HexDigit(n) == IF n < 10 THEN 48 + n ELSE 55 + n

\* urllib.parse.quote(string, safe): "%XX" for every character that is
\* neither always safe nor in safe
RECURSIVE quote(_, _)
quote(string, safe) ==
    IF string = <<>> THEN <<>>
    ELSE LET c == Head(string)
         IN  (IF c \in AlwaysSafe \cup safe THEN <<c>>
              ELSE <<37, HexDigit(c \div 16), HexDigit(c % 16)>>)
             \o quote(Tail(string), safe)

\* str.upper
upper(string) ==
    [i \in 1..Len(string) |->
        IF string[i] \in 97..122 THEN string[i] - 32 ELSE string[i]]

\* a < b for two strings, as Python compares them: by code point
RECURSIVE StrLess(_, _)
StrLess(a, b) ==
    IF b = <<>> THEN FALSE
    ELSE IF a = <<>> THEN TRUE
    ELSE IF Head(a) # Head(b) THEN Head(a) < Head(b)
    ELSE StrLess(Tail(a), Tail(b))

\* x < y for two (key, value) tuples
ItemLess(x, y) == StrLess(x[1], y[1]) \/ (x[1] = y[1] /\ StrLess(x[2], y[2]))

\* sorted(params.items()): the items by key and value as they are
sorted(items) == SortSeq(items, ItemLess)

\* sep.join(strings)
RECURSIVE join(_, _)
join(sep, strings) ==
    IF strings = <<>> THEN <<>>
    ELSE IF Len(strings) = 1 THEN strings[1]
    ELSE strings[1] \o sep \o join(sep, Tail(strings))

\* str.startswith
startswith(string, prefix) ==
    /\ Len(string) >= Len(prefix)
    /\ SubSeq(string, 1, Len(prefix)) = prefix

\* "oauth_"
OAuthPrefix == <<111, 97, 117, 116, 104, 95>>

\* the signature base string of _generate_oauth_signature; the signature
\* returned is base64(HMAC-SHA1(signing key, base string))
TwitterOAuth1Handler_base_string(method, url, params) ==
    LET sorted_params == sorted(params)
        param_string ==
            join(<<38>>, [i \in 1..Len(sorted_params) |->
                            quote(sorted_params[i][1], {}) \o <<61>>
                                \o quote(sorted_params[i][2], {})])
    IN  upper(method) \o <<38>> \o quote(url, {}) \o <<38>> \o quote(param_string, {})

\* {k: v for k, v in params.items() if k.startswith('oauth_')}
RECURSIVE OAuthItems(_)
OAuthItems(items) ==
    IF items = <<>> THEN <<>>
    ELSE (IF startswith(Head(items)[1], OAuthPrefix) THEN <<Head(items)>> ELSE <<>>)
         \o OAuthItems(Tail(items))

\* TwitterOAuth1Handler._create_oauth_header: OAuth k="quote(v)", ...
TwitterOAuth1Handler_create_oauth_header(params) ==
    LET oauth_params == OAuthItems(params)
        sorted_params == sorted(oauth_params)
        param_string ==
            join(<<44, 32>>, [i \in 1..Len(sorted_params) |->
                                sorted_params[i][1] \o <<61, 34>>
                                    \o quote(sorted_params[i][2], DefaultSafe)
                                    \o <<34>>])
    IN  <<79, 65, 117, 116, 104, 32>> \o param_string

\* parameter names: "oauth_a", "oauth_|", "a"
ParamNames ==
    {OAuthPrefix \o <<97>>, OAuthPrefix \o <<124>>, <<97>>}

\* parameter values: "a", "/", ":"
ParamValues == {<<97>>, <<47>>, <<58>>}

\* "POST" and "get"
Methods == {<<80, 79, 83, 84>>, <<103, 101, 116>>}

\* the endpoint: "a:/"
Urls == {<<97, 58, 47>>}

\* the dicts of at most MaxParams parameters, as their items in insertion order
ParamDicts ==
    UNION {{items \in [1..n -> ParamNames \X ParamValues] :
                \A i, j \in 1..n : i # j => items[i][1] # items[j][1]} :
           n \in 0..MaxParams}

\* a handler has a request to sign
InitSign ==
    /\ active_states = <<>>
    /\ connections = {}
    /\ task = [p \in Tasks |-> IdleTask]
    /\ nextState = 1
    /\ nextConnId = 1
    /\ request_tokens = {}
    /\ passes = [s \in 1..(MaxStates + 1) |-> 0]
    /\ response = NoResponse
    /\ now = 0
    /\ other_states = <<>>
    /\ cipher = NoCipher
    /\ cache_store = {}
    /\ jwts = {}
    /\ parsing = NoParsing
    /\ signing \in {[NoSigning EXCEPT !.pc = "params", !.method = method,
                                      !.url = url, !.params = params] :
                       method \in Methods, url \in Urls, params \in ParamDicts}

\* oauth_params['oauth_signature'] = self._generate_oauth_signature(...)
generate_oauth_signature ==
    /\ signing.pc = "params"
    /\ signing' = [signing EXCEPT
                     !.pc = "signed",
                     !.base_string = TwitterOAuth1Handler_base_string(
                                         signing.method, signing.url, signing.params)]
    /\ UNCHANGED <<active_states, connections, task, nextState, nextConnId,
                   request_tokens, passes, response, now, other_states, cipher,
                   cache_store, jwts, parsing>>

\* auth_header = self._create_oauth_header(oauth_params)
create_oauth_header ==
    /\ signing.pc = "signed"
    /\ signing' = [signing EXCEPT
                     !.pc = "header",
                     !.header = TwitterOAuth1Handler_create_oauth_header(signing.params)]
    /\ UNCHANGED <<active_states, connections, task, nextState, nextConnId,
                   request_tokens, passes, response, now, other_states, cipher,
                   cache_store, jwts, parsing>>

NextSign ==
    \/ generate_oauth_signature
    \/ create_oauth_header

\* the OAuth1 signature base string and Authorization header on their own
SpecSign == InitSign /\ [][NextSign]_vars


(* ------------------------------------------------------------------ auth *)

\* AuthService (src/.old/backend/services/auth_service.py) keeps a session
\* record per token in the Supabase table cache_store, through CacheService
\* (src/.old/backend/core/database.py).  The Supabase client is synchronous:
\* no method of AuthService suspends between its steps, so each is one
\* action.  The users table holds every user of Users, active, and is not
\* written here.  A request to Supabase may fail (ok is FALSE): the client
\* raises, and CacheService catches.

\* _create_session_token: expires_at = utcnow() + timedelta(hours=1), in
\* ticks of the clock
SessionHours == 1

\* the tokens a client may send: every payload, signed by the service or not
Jwts ==
    [sub : Users, session_id : 1..MaxSessions, exp : 1..(MaxTime + SessionHours)]

\* what a session token carries
Payload(j) == [sub |-> j.sub, session_id |-> j.session_id, exp |-> j.exp]

\* jwt.decode(token, settings.JWT_SECRET_KEY, algorithms=["HS256"]): the
\* signature verifies for the tokens jwt.encode made with the key, and exp
\* must lie ahead
jwt_decode(token) ==
    IF \A j \in jwts : Payload(j) # token THEN ErrInvalidToken
    ELSE IF token.exp <= now THEN ErrTokenExpired
    ELSE Ok

\* CacheService.get: the values under the key, none when the request fails
CacheService_get(store, key, ok) ==
    IF ok THEN {r \in store : r.key = key} ELSE {}

\* CacheService.set: upsert, nothing when the request fails
CacheService_set(store, key, user_id, ok) ==
    IF ok THEN {r \in store : r.key # key} \cup {[key |-> key, user_id |-> user_id]}
    ELSE store

\* CacheService.delete: the row goes, unless the request fails
CacheService_delete(store, key, ok) ==
    IF ok THEN {r \in store : r.key # key} ELSE store

\* the outcome of a request to the auth endpoints
AuthOutcome(op, token, result) ==
    [NoResponse EXCEPT !.op = op, !.token = token, !.result = result]

\* the end of register_user and of authenticate_user: _create_session_token
\* stores the session under a new session_id and signs the token
create_session_token(user_id, ok) ==
    /\ Cardinality(jwts) < MaxSessions
    /\ LET session_id == Cardinality(jwts) + 1
           token == [sub |-> user_id, session_id |-> session_id,
                     exp |-> now + SessionHours]
       IN  /\ cache_store' = CacheService_set(cache_store, session_id, user_id, ok)
           /\ jwts' = jwts \cup {[sub |-> token.sub, session_id |-> token.session_id,
                                   exp |-> token.exp, logged_out |-> FALSE]}
           /\ response' = AuthOutcome("create_session_token", token, Ok)
    /\ UNCHANGED <<active_states, connections, task, nextState, nextConnId,
                   request_tokens, passes, now, other_states, cipher,
                   parsing, signing>>

\* AuthService.validate_session (get_current_user of every endpoint)
validate_session(token, ok) ==
    /\ LET session_data == CacheService_get(cache_store, token.session_id, ok)
       IN  response' =
             AuthOutcome("validate_session", token,
                         IF jwt_decode(token) # Ok THEN jwt_decode(token)
                         ELSE IF \/ session_data = {}
                                 \/ \E r \in session_data : r.user_id # token.sub
                         THEN ErrSessionInvalid
                         ELSE Ok)
    /\ UNCHANGED <<active_states, connections, task, nextState, nextConnId,
                   request_tokens, passes, now, other_states, cipher,
                   cache_store, jwts, parsing, signing>>

\* POST /auth/logout: logout of the API layer calls logout_user, which
\* decodes the token and deletes its session record; the result of the
\* delete is not looked at, and the answer is "Logged out successfully"
\* whatever happened
logout_user(token, ok) ==
    /\ cache_store' =
         IF jwt_decode(token) = Ok
         THEN CacheService_delete(cache_store, token.session_id, ok)
         ELSE cache_store
    /\ jwts' = {IF Payload(j) = token THEN [j EXCEPT !.logged_out = TRUE] ELSE j :
                  j \in jwts}
    /\ response' = AuthOutcome("logout_user", token, Ok)
    /\ UNCHANGED <<active_states, connections, task, nextState, nextConnId,
                   request_tokens, passes, now, other_states, cipher,
                   parsing, signing>>

NextAuth ==
    \/ \E user_id \in Users, ok \in BOOLEAN : create_session_token(user_id, ok)
    \/ \E token \in Jwts, ok \in BOOLEAN : validate_session(token, ok)
    \/ \E token \in Jwts, ok \in BOOLEAN : logout_user(token, ok)
    \/ Tick

\* the auth endpoints: login and register, the session check, logout
SpecAuth == Init /\ [][NextAuth]_vars


(* ------------------------------------------------------------ properties *)

\* task p is in complete_oauth, past state verification
InComplete(p) == task[p].pc # "idle" /\ task[p].op = "complete_oauth"

\* the request that ended in this step was a complete_oauth call that ended
\* in its first step, before any provider call
EndedAtOnce == response.op = "complete_oauth" /\ response.seen # "none"

\* a callback that carries both oauth_token and oauth_verifier (Twitter's)
CarriesOAuth1(r) == r.oauth_token # None /\ r.oauth_verifier # None

\* the state token under which initiate_oauth obtained a request token
StateOfToken(oauth_token) ==
    {r.state : r \in {q \in request_tokens : q.oauth_token = oauth_token}}

\* C1: a state is consumed at most once: over any sequence of initiate and
\* complete calls at most one complete call per state token gets past state
\* verification, and a complete call with a state token that was consumed
\* before fails at state verification.
C1_ConsumedAtMostOnce ==
    /\ \A s \in 1..(MaxStates + 1) : passes[s] <= 1
    /\ (EndedAtOnce /\ ~CarriesOAuth1(response) /\ response.seen = "consumed")
          => response.result = ErrInvalidState

\* C1 witness: a state token got one complete call past verification, and a
\* later complete call with it has just failed
C1_Witness ==
    /\ EndedAtOnce /\ ~CarriesOAuth1(response)
    /\ response.seen = "consumed"
    /\ response.state \in 1..MaxStates
    /\ passes[response.state] = 1
    /\ response.result = ErrInvalidState

\* C2: a second complete with a state token that was already consumed fails
\* with an error that is not the one a never issued state token gets
\* ("Invalid or expired state parameter").
C2_AlreadyConsumedIsDistinct ==
    (EndedAtOnce /\ ~CarriesOAuth1(response) /\ response.seen = "consumed")
        => response.result # ErrInvalidState

\* C3: consume is atomic: verification and deletion of a state record are
\* one step, so a task past verification holds a state token that is no
\* longer pending, two concurrent complete calls are never both past
\* verification with the same state token, and the call that finds the state
\* pending is not the one turned away.
C3_ConsumeIsAtomic ==
    /\ \A p \in Tasks : InComplete(p) => task[p].state \notin Keys(active_states)
    /\ \A p, q \in Tasks :
          (p # q /\ InComplete(p) /\ InComplete(q))
              => task[p].state # task[q].state
    /\ (EndedAtOnce /\ ~CarriesOAuth1(response) /\ response.seen = "pending")
          => response.result # ErrInvalidState

\* C3 witness: one complete call is past verification and waits for the
\* provider while a second call with the same state token has just failed
C3_Witness ==
    \E p \in Tasks :
        /\ InComplete(p)
        /\ EndedAtOnce /\ ~CarriesOAuth1(response)
        /\ response.state = task[p].state
        /\ response.result = ErrInvalidState

\* C4: in every reachable state the table holds at most one connection per
\* (user_id, platform, platform_user_id).
C4_OneRowPerTriple ==
    \A c, d \in connections :
        (c.user_id = d.user_id /\ c.platform = d.platform
            /\ c.platform_user_id = d.platform_user_id) => c = d

\* C5: when complete succeeds for a triple that has a connection, that row
\* is updated in place: no row is added, the row keeps its id, and its
\* access token, refresh token, token secret and expiry are those of this
\* token exchange.
C5_UpsertUpdatesInPlace ==
    [][\A p \in Tasks :
         LET before == RowsOf(connections, task[p].user_id, task[p].platform,
                              task[p].platform_user_id)
             after == RowsOf(connections', task[p].user_id, task[p].platform,
                             task[p].platform_user_id)
         IN  (task[p].pc = "upsert" /\ task'[p].pc = "idle"
                /\ response'.result = Ok /\ before # {})
                => /\ {c.id : c \in connections'} = {c.id : c \in connections}
                   /\ \A c \in after :
                        /\ c.access_token = encrypt_token(task[p].tokens.access_token)
                        /\ c.refresh_token = EncryptOrNone(task[p].tokens.refresh_token)
                        /\ c.oauth_token_secret =
                              EncryptOrNone(task[p].tokens.oauth_token_secret)
                        /\ c.expires_at = task[p].tokens.expires_at]_vars

\* C6: with the twitter flows of two different users pending, completing the
\* callback of one (the callback carrying its oauth_token) leaves the state
\* record of the other in place.
C6_OtherPendingStateKept ==
    [][\A mine, other \in request_tokens :
         LET pending == Keys(active_states)
         IN  (/\ mine.state \in pending /\ other.state \in pending
              /\ Lookup(active_states, mine.state).user_id
                    # Lookup(active_states, other.state).user_id
              /\ response'.op = "complete_oauth" /\ response'.seen # "none"
              /\ CarriesOAuth1(response')
              /\ response'.oauth_token = mine.oauth_token)
                => other.state \in Keys(active_states')]_vars

\* C7: an OAuth1 callback is resolved by its oauth_token: the state that
\* complete(oauth_token, oauth_verifier) consumes, for an oauth_token that an
\* initiate obtained, is the state of that initiate, never another pending
\* twitter state.
C7_ResolvedByOAuthToken ==
    /\ (/\ EndedAtOnce /\ CarriesOAuth1(response)
        /\ StateOfToken(response.oauth_token) # {}
        /\ response.state # None)
          => response.state \in StateOfToken(response.oauth_token)
    /\ \A p \in Tasks :
          (InComplete(p) /\ CarriesOAuth1(task[p]))
              => task[p].state \in StateOfToken(task[p].oauth_token)

\* C8: the request token of a twitter initiate is still there at complete: a
\* callback that carries the oauth_token issued for the state it consumes
\* does not end for want of the request token; it goes on to the access
\* token exchange.
C8_RequestTokenKeptUntilComplete ==
    (/\ EndedAtOnce /\ CarriesOAuth1(response)
     /\ response.state \in StateOfToken(response.oauth_token))
        => response.result \notin {ErrNoRequestToken, ErrTokenMismatch}

C10_StateExpiresAfterTTL ==
    [][\A k \in 1..Len(active_states) :
         (active_states[k].state \notin Keys(active_states'))
            => now - active_states[k].created_at <= StateTTL]_vars

\* C12: initiate with a platform outside twitter, linkedin, facebook,
\* instagram fails with "Unsupported platform" and leaves the state store as
\* it was: no record is created.
C12_UnsupportedPlatformStoresNothing ==
    [][(response'.op = "initiate_oauth"
          /\ response'.result = ErrUnsupportedPlatform)
         => active_states' = active_states]_vars

\* C13: a complete call whose token exchange or profile fetch fails has
\* inserted no row and modified none: the table changes only in the step
\* that ends a complete call with success, so every step of a call that ends
\* with a failure leaves the table as it was.
C13_FailedCompleteWritesNothing ==
    [][/\ (connections' # connections)
            => (response'.op = "complete_oauth" /\ response'.result = Ok)
       /\ (response'.op = "complete_oauth"
             /\ response'.result \in {ErrTokenExchange, ErrAccessToken, ErrProfile})
            => connections' = connections]_vars

\* C13 witness: with a connection stored, a complete call has just failed at
\* the profile fetch, its token exchange done
C13_Witness ==
    /\ response.op = "complete_oauth"
    /\ response.result = ErrProfile
    /\ connections # {}

\* C11: a state record created by initiate in one server process is visible
\* to the other: a complete call (a callback without the oauth_token and
\* oauth_verifier pair) that arrives at one process with a state token
\* pending in the other is not turned away at state verification.
C11_StateVisibleToEveryInstance ==
    (EndedAtOnce /\ ~CarriesOAuth1(response)
        /\ response.seen = "pending elsewhere")
        => response.result # ErrInvalidState

\* C20: decrypt(encrypt(x)) = x for every string x, the empty string
\* included, when both use the same key.
C20_DecryptInvertsEncrypt ==
    (cipher.pc = "decrypted" /\ ~cipher.tampered
        /\ cipher.reader = cipher.cipher_suite)
        => cipher.decrypted_token = cipher.token

\* C20 witness: a token that is not empty has been encrypted to a text other
\* than itself and decrypted with the same key
C20_Witness ==
    /\ cipher.pc = "decrypted"
    /\ ~cipher.tampered
    /\ cipher.reader = cipher.cipher_suite
    /\ cipher.token # None
    /\ cipher.encrypted_token # cipher.token
    /\ cipher.decrypted_token = cipher.token

\* task p is in a refresh, between reading the stored refresh token and
\* writing the new tokens
InRefresh(p) == task[p].pc \in {"refresh", "update"}

\* the request r that has ended asked op of the connection c
Asked(r, op, c) == r.op = op /\ r.connection_id = c.id

\* C14: refresh on a connection of twitter (OAuth1, no refresh) fails with
\* "No refresh token available", the code's refusal of a refresh that cannot
\* be done; it makes no provider call (the request ends in its first step and
\* no refresh for a twitter row is ever in flight) and leaves the row, so
\* its access_token, refresh_token, oauth_token_secret and expires_at, as
\* it was.
C14_OAuth1RefreshRefused ==
    [][/\ \A c \in connections :
            (/\ Asked(response', "refresh_connection", c)
             /\ response'.user_id = c.user_id
             /\ c.platform = "twitter")
                => /\ response'.result = ErrNoRefreshToken
                   /\ task' = task
                   /\ c \in connections'
       /\ \A p \in Tasks : \A c \in connections' :
            (InRefresh(p)' /\ task'[p].connection_id = c.id)
                => c.platform # "twitter"]_vars

\* C14 witness: the owner of a twitter connection, stored with its token
\* secret, has just been refused a refresh
C14_Witness ==
    \E c \in connections :
        /\ Asked(response, "refresh_connection", c)
        /\ response.user_id = c.user_id
        /\ c.platform = "twitter"
        /\ c.oauth_token_secret # None
        /\ response.result = ErrNoRefreshToken

\* C15: refresh is mutually exclusive per connection: two refresh calls on
\* one connection are never both between reading the stored refresh token
\* and writing the new tokens.
C15_RefreshIsExclusive ==
    \A p, q \in Tasks :
        (p # q /\ InRefresh(p) /\ InRefresh(q))
            => task[p].connection_id # task[q].connection_id

\* C16: a refresh of an OAuth2 connection sends the provider the decrypted
\* stored refresh token (the text whose ciphertext the row holds), and when
\* it succeeds the row of that id holds the access token and the expiry of
\* the provider's answer, every other row is as it was and no row has come
\* or gone.
C16_RefreshPersistsNewTokens ==
    [][/\ \A p \in Tasks :
            (task[p].pc = "idle" /\ task'[p].pc = "refresh")
                => \E c \in connections :
                      /\ c.id = task'[p].connection_id
                      /\ task'[p].refresh_token # None
                      /\ c.refresh_token = encrypt_token(task'[p].refresh_token)
       /\ \A p \in Tasks :
            (task[p].pc = "update" /\ task'[p].pc = "idle"
                /\ response'.result = Ok)
                => /\ \E c \in connections' : c.id = task[p].connection_id
                   /\ \A c \in connections' :
                        c.id = task[p].connection_id
                            => /\ decrypt_token(c.access_token)
                                    = task[p].tokens.access_token
                               /\ c.expires_at = task[p].tokens.expires_at
                   /\ \A c \in connections :
                        c.id # task[p].connection_id => c \in connections'
                   /\ {c.id : c \in connections'} = {c.id : c \in connections}]_vars

\* C16 witness: a refresh has just succeeded on one of two stored rows and
\* the row holds a new access token
C16_Witness ==
    /\ response.op = "refresh_connection"
    /\ response.result = Ok
    /\ Cardinality(connections) > 1
    /\ \E c \in connections :
          /\ c.id = response.connection_id
          /\ c.access_token # None
          /\ c \notin UNION StoredTables

\* C17: disconnect by a user who does not own the connection returns false
\* (the API layer answers "Connection not found") and leaves that row and
\* every other row as they were.
C17_DisconnectVerifiesOwnership ==
    [][\A c \in connections :
         (Asked(response', "disconnect_platform", c)
            /\ response'.user_id # c.user_id)
            => /\ response'.result = ErrConnectionNotFound
               /\ connections' = connections]_vars

\* C17 witness: a user has just been refused the disconnect of a row that
\* is another user's
C17_Witness ==
    \E c \in connections :
        /\ Asked(response, "disconnect_platform", c)
        /\ response.user_id # c.user_id
        /\ response.result = ErrConnectionNotFound

\* C18: after disconnect has returned true for the owner, the connection is
\* gone from the stored table, or inactive in it: a later request finds no
\* active row of that id.
C18_DisconnectedIsGone ==
    (response.op = "disconnect_platform" /\ response.result = Ok)
        => \A c \in connections :
              c.id = response.connection_id => ~c.is_active

\* C19: a refresh request for a connection the requesting user does not own
\* is refused ("Connection not found") in its first step: no provider call
\* is started, for this request or ever for a row that is not the
\* requester's, and the table is as it was.
C19_RefreshVerifiesOwnership ==
    [][/\ \A c \in connections :
            (Asked(response', "refresh_connection", c)
                /\ response'.user_id # c.user_id)
                => /\ response'.result = ErrConnectionNotFound
                   /\ task' = task
                   /\ connections' = connections
       /\ \A p \in Tasks : \A c \in connections' :
            (InRefresh(p)' /\ task'[p].connection_id = c.id)
                => task'[p].user_id = c.user_id]_vars

\* C19 witness: a user has just been refused the refresh of another user's
\* row, one that has a refresh token
C19_Witness ==
    \E c \in connections :
        /\ Asked(response, "refresh_connection", c)
        /\ response.user_id # c.user_id
        /\ c.refresh_token # None
        /\ response.result = ErrConnectionNotFound

\* C21: decrypt of a ciphertext that was tampered with, or that was made
\* under a different key, never returns the empty string (it fails with a
\* DecryptionError instead): what decrypt_token returns for such a text, the
\* ciphertext of a token that is not empty, is not "".
C21_FailedDecryptIsNotEmpty ==
    (/\ cipher.pc = "decrypted"
     /\ cipher.token # None
     /\ (cipher.tampered \/ cipher.reader # cipher.cipher_suite))
        => cipher.decrypted_token # None

\* C22: when the stored refresh token of a connection cannot be decrypted,
\* the refresh its owner asks for does not end as a refresh without a token
\* ("No refresh token available", from the service or from the handler that
\* was handed an empty refresh token) nor as a failure of the provider: it
\* ends with a DecryptionError.
C22_DecryptionErrorNotDowngraded ==
    \A c \in connections :
        (/\ Asked(response, "refresh_connection", c)
         /\ response.user_id = c.user_id
         /\ c.refresh_token # None
         /\ decrypt_token(c.refresh_token) = None)
            => response.result
                  \notin {ErrNoRefreshToken, ErrEmptyRefreshToken, ErrRefreshFailed}

\* C23: the body of a provider's response is never handed to the caller: the
\* answer to a request is the same whatever the body of the provider
\* response it failed on.
C23_ProviderBodyNotReturned == response.text = None

\* C24: a request that fails on what the client sent (an unsupported platform;
\* an OAuth2 callback with a state that is not pending; an OAuth1 callback
\* with a request token the provider never issued) is answered with a 4xx,
\* and a request that fails on a provider's response (request token, token
\* exchange, refresh, profile) with a 5xx.
C24_FailureStatusByCause ==
    LET ClientInput ==
            \/ /\ response.op = "initiate_oauth"
               /\ response.result = ErrUnsupportedPlatform
            \/ /\ EndedAtOnce
               /\ ~CarriesOAuth1(response)
               /\ response.seen # "pending"
            \/ /\ EndedAtOnce
               /\ CarriesOAuth1(response)
               /\ StateOfToken(response.oauth_token) = {}
        Provider == response.text # None
    IN  /\ ClientInput => status_code(response.result) \in 400..499
        /\ Provider => status_code(response.result) \in 500..599

InitiateReturned == response.op = "initiate_oauth" /\ response.result = Ok

\* C26: an initiate call that returns hands back the authorization URL and
\* the state token, and the state token is the key, not empty, of the state
\* record this call created.
C26_InitiateReturnsItsState ==
    InitiateReturned =>
        /\ response.authorization_url.base # ""
        /\ response.returned # None
        /\ response.returned = response.state

\* C27: for linkedin, facebook and instagram the authorization URL that
\* initiate returns carries client_id, redirect_uri, scope,
\* response_type=code and state, and its state is the key under which the
\* record of this user, platform and redirect_uri is stored.
C27_OAuth2UrlCarriesState ==
    (InitiateReturned /\ response.platform \in {"linkedin", "facebook", "instagram"})
        => LET query == response.authorization_url.query
               config == OAuthConfig(response.platform, response.redirect_uri)
           IN  /\ DOMAIN query = {"client_id", "redirect_uri", "scope",
                                  "response_type", "state"}
               /\ query.client_id = config.client_id
               /\ query.redirect_uri = response.redirect_uri
               /\ query.scope = config.scope
               /\ query.response_type = "code"
               /\ query.state \in Keys(active_states)
               /\ LET state_data == Lookup(active_states, query.state)
                  IN  /\ state_data.user_id = response.user_id
                      /\ state_data.platform = response.platform
                      /\ state_data.redirect_uri = response.redirect_uri

\* an initiate call for facebook has returned after one for another platform
C27_Witness ==
    /\ InitiateReturned
    /\ response.platform = "facebook"
    /\ Len(active_states) = 2

\* C28: a request whose call to a provider got no answer ends with an error
\* of its own, a provider timeout, told apart from the errors of the service
\* itself: it is not answered the way an internal error is.
C28_TimeoutIsDistinct ==
    response.result = ErrReadTimeout =>
        \A result \in InternalErrors :
            status_code(result) # status_code(response.result)

\* C29: get_user_connections returns all the connections of the user it is
\* asked for, and no connection of another user.
C29_UserConnectionsListed ==
    response.op = "get_user_connections" =>
        response.rows = {c \in connections : c.user_id = response.user_id}

\* C30: once logout_user has been called with a token that login or register
\* issued, no validate_session of that token succeeds, expired or not; and a
\* validate_session succeeds only while cache_store holds a session record
\* under the token's session_id with the token's user.
C30_LogoutInvalidatesSession ==
    response.op = "validate_session" =>
        /\ (\E j \in jwts : Payload(j) = response.token /\ j.logged_out)
               => response.result # Ok
        /\ response.result = Ok
               => \E r \in cache_store : /\ r.key = response.token.session_id
                                         /\ r.user_id = response.token.sub

\* the flow of state token s is over: the token was handed out, its record
\* is gone and no request is at work on it
FlowOver(s) ==
    /\ s \in Issued
    /\ s \notin Keys(active_states)
    /\ \A p \in Tasks : task[p].state # s

\* C31: a flow that has ended stays ended.  When a complete call fails after
\* it consumed the state (token exchange, profile fetch), the flow of that
\* state is over; and once a flow is over no step brings its record back or
\* sets a request to work on it, so none can complete it: a complete call
\* with its state fails at state verification.
C31_TerminalStaysTerminal ==
    [][\A s \in 1..MaxStates :
          /\ (/\ response'.op = "complete_oauth"
              /\ response'.seen = "none"
              /\ response'.result # Ok
              /\ response'.state = s) => FlowOver(s)'
          /\ FlowOver(s) =>
                /\ FlowOver(s)'
                /\ (response'.op = "complete_oauth" /\ response'.state = s)
                      => response'.result = ErrInvalidState
      ]_vars

\* a complete call with a state has just failed at state verification, after
\* the one call that consumed the state had failed: nothing was written
C31_Witness ==
    /\ EndedAtOnce /\ ~CarriesOAuth1(response)
    /\ response.seen = "consumed"
    /\ response.result = ErrInvalidState
    /\ response.state \in 1..MaxStates
    /\ passes[response.state] = 1
    /\ FlowOver(response.state)
    /\ connections = {}
    /\ \A p \in Tasks : task[p].pc = "idle"

\* C32: every pending twitter state record has its request token: once the
\* initiate call that stored the record has ended, the provider has issued a
\* request token for that state; a failed request-token call leaves no
\* pending twitter state behind.
C32_PendingTwitterStateHasRequestToken ==
    \A k \in 1..Len(active_states) :
        (/\ active_states[k].platform = "twitter"
         /\ \A p \in Tasks : ~(/\ task[p].pc = "request_token"
                                /\ task[p].state = active_states[k].state))
            => \E r \in request_tokens : r.state = active_states[k].state

\* C33: every stored connection has the credentials of one flow only: a
\* twitter connection has an oauth_token_secret, no refresh_token and no
\* expires_at; a linkedin, facebook or instagram connection has no
\* oauth_token_secret; none has both a refresh_token and an
\* oauth_token_secret.
C33_OneFlowsCredentials ==
    \A c \in connections :
        /\ c.platform = "twitter"
              => /\ c.oauth_token_secret # None
                 /\ c.refresh_token = None
                 /\ c.expires_at = None
        /\ c.platform \in {"linkedin", "facebook", "instagram"}
              => c.oauth_token_secret = None
        /\ ~(c.refresh_token # None /\ c.oauth_token_secret # None)

\* a refresh has just succeeded on a table that holds a twitter connection
\* and a connection that complete_oauth added
C33_Witness ==
    /\ response.op = "refresh_connection"
    /\ response.result = Ok
    /\ \E c \in connections : c.platform = "twitter"
    /\ \E c \in connections : c.id > MaxRows

\* C34: the connection that complete writes belongs to the user of the state
\* it consumed: the call takes user, platform and redirect_uri from the
\* record pending under its state, keeps them until it ends, and the row it
\* writes has that user and that platform.
C34_ConnectionBelongsToStateUser ==
    [][\A p \in Tasks :
          /\ (~InComplete(p) /\ InComplete(p)') =>
                \E k \in 1..Len(active_states) :
                    /\ active_states[k].state = task'[p].state
                    /\ active_states[k].user_id = task'[p].user_id
                    /\ active_states[k].platform = task'[p].platform
                    /\ active_states[k].redirect_uri = task'[p].redirect_uri
          /\ (InComplete(p) /\ InComplete(p)') =>
                /\ task'[p].state = task[p].state
                /\ task'[p].user_id = task[p].user_id
                /\ task'[p].platform = task[p].platform
                /\ task'[p].redirect_uri = task[p].redirect_uri
          /\ (/\ task[p].pc = "upsert"
              /\ task'[p].pc = "idle"
              /\ response'.result = Ok) =>
                \E c \in connections' :
                    /\ c.id = response'.returned
                    /\ c.user_id = task[p].user_id
                    /\ c.platform = task[p].platform
      ]_vars

\* a complete call has just written a connection while a state of another
\* user is pending
C34_Witness ==
    /\ response.op = "complete_oauth"
    /\ response.result = Ok
    /\ \E c \in connections :
          /\ c.id = response.returned
          /\ \E k \in 1..Len(active_states) : active_states[k].user_id # c.user_id

\* C35: a refresh that succeeds leaves the connection refreshable: the row
\* still holds a refresh token (the one it had, when the provider's answer
\* carries none).
C35_RefreshKeepsRefreshToken ==
    (response.op = "refresh_connection" /\ response.result = Ok)
        => \A c \in connections :
              c.id = response.connection_id => c.refresh_token # None

\* C36: parse_token_response gives expires_at = now + expires_in exactly
\* when the response carries expires_in and no expires_at otherwise, and it
\* makes no OAuthTokens value of a response without access_token.
C36_ExpiresAtFromExpiresIn ==
    parsing.pc = "parsed" =>
        LET token_data == parsing.token_data
            tokens == parsing.tokens
        IN  IF token_data.access_token = Missing THEN tokens = NoTokens
            ELSE /\ tokens # NoTokens
                 /\ tokens.access_token = token_data.access_token
                 /\ token_data.expires_in # Missing
                       => tokens.expires_at = parsing.t + token_data.expires_in
                 /\ token_data.expires_in = Missing
                       => tokens.expires_at = None

\* a response with expires_in, received after the clock's start, was parsed
C36_Witness ==
    /\ parsing.pc = "parsed"
    /\ parsing.t > 0
    /\ parsing.token_data.expires_in # Missing
    /\ parsing.tokens.expires_at = parsing.t + parsing.token_data.expires_in

\* the items with every name and value percent-encoded
EncodedItems(items) ==
    [i \in 1..Len(items) |-> <<quote(items[i][1], {}), quote(items[i][2], {})>>]

\* the base string as the canonical construction gives it: encode every name
\* and value, sort the pairs by encoded key, join them, encode again
CanonicalBaseString(method, url, params) ==
    LET encoded == SortSeq(EncodedItems(params), ItemLess)
        param_string ==
            join(<<38>>, [i \in 1..Len(encoded) |->
                            encoded[i][1] \o <<61>> \o encoded[i][2]])
    IN  upper(method) \o <<38>> \o quote(url, {}) \o <<38>> \o quote(param_string, {})

\* the same parameters inserted in another order give the same base string
SameForEveryOrder ==
    signing.pc \in {"signed", "header"} =>
        \A f \in Permutations(1..Len(signing.params)) :
            TwitterOAuth1Handler_base_string(
                signing.method, signing.url,
                [i \in 1..Len(signing.params) |-> signing.params[f[i]]])
              = signing.base_string

\* C37: the signature base string is the canonical one, METHOD & encoded url
\* & encoded parameter string with the encoded pairs sorted by encoded key,
\* and it is the same for every insertion order of the parameters.
C37_BaseStringCanonical ==
    signing.pc \in {"signed", "header"} =>
        /\ signing.base_string
              = CanonicalBaseString(signing.method, signing.url, signing.params)
        /\ SameForEveryOrder

\* the header with every value encoded as the signature base string encodes it
FullyEncodedHeader(params) ==
    LET sorted_params == sorted(OAuthItems(params))
    IN  <<79, 65, 117, 116, 104, 32>>
        \o join(<<44, 32>>, [i \in 1..Len(sorted_params) |->
                                sorted_params[i][1] \o <<61, 34>>
                                    \o quote(sorted_params[i][2], {}) \o <<34>>])

\* C38: the Authorization header carries exactly the oauth_ parameters, sorted
\* by key, each value encoded as the signature base string encodes it, with no
\* reserved character ("/" and ":" among them) left as it is.
C38_HeaderValuesFullyEncoded ==
    signing.pc = "header" =>
        /\ signing.header = FullyEncodedHeader(signing.params)
        /\ \A i \in 1..Len(signing.header) : signing.header[i] \notin {47, 58}


====
